---------------------------- MODULE Spec2Model ----------------------------
(***************************************************************************)
(* Audio relay (server/src/index.ts), the browser producer                 *)
(* (site/src/App.tsx) and the voice bot's Consumer Connector (the bot's    *)
(* entry module, src/unnamed/part_000).                                    *)
(*                                                                         *)
(* The relay and the bot are two Node processes, each with one event loop: *)
(* every handler below is one atomic action.  Sockets are named by the     *)
(* identity the relay gives them on acceptance (1..MaxConns, never reused).*)
(***************************************************************************)
EXTENDS Integers, Sequences, FiniteSets, TLC

\* ------------------------------------------------------------- bounds
MaxConns == 3        \* sockets the relay accepts in one run
MaxFrames == 2       \* frames the clients send in one run
MaxFailures == 2     \* cap of the history count of failed connect attempts
MaxJoins == 2        \* successful join-voice-channel commands in one run

\* ---------------------------------------------------------- constants
ReconnectDelay == 5000          \* setTimeout(..., 5000)
WS_OPEN == "OPEN"               \* WebSocket.OPEN

Conns == 1..MaxConns
NoPeer == {}                    \* a connector instance the relay has not accepted
Null == "null"                  \* searchParams.get() of an absent parameter
Payloads == {<<1, 2, 3>>, <<4, 5>>}
ReadyStates == {"NONE", "CONNECTING", "OPEN", "CLOSING", "CLOSED"}
Signals == {"SIGHUP", "SIGINT", "SIGTERM"}

\* The query strings of the connection requests: sequences of name/value pairs.
BotQuery == << <<"type", "bot">> >>
Queries ==
    { <<>>,
      BotQuery,
      << <<"type", "Bot">> >>,
      << <<"role", "bot">> >>,
      << <<"type", "Bot">>, <<"type", "bot">> >> }

VARIABLES
    \* relay process
    botClients,     \* Set<WebSocket> of consumers
    webClients,     \* Set<WebSocket> of producers
    readyState,     \* relay-side readyState of each socket ("NONE": not accepted yet)
    clientType,     \* the clientType the connection handler read for each socket
    handlers,       \* which branch registered the socket's handlers: "none", "bot", "web"
    sentTo,         \* payloads the relay has sent on each socket, in order
    sendErrors,     \* send() calls made on a socket that was not open
    stopping,       \* the shutdown flag
    listening,      \* the HTTP server accepts connections
    exited,         \* process.exit was called
    exitCode,
    flushCalls,     \* logger.flush() calls
    serverCloseCalls, \* server.close() calls
    \* transport, client to relay
    wire,           \* frames a client has sent that the relay has not handled yet
    \* history
    sent,           \* every frame each client has sent, in order
    handled,        \* every frame the broadcast handler has handled: [from, data]
    regAt,          \* Len(handled) when the socket was registered
    errored,        \* the tracked sockets that have had an "error" event handled
    wireGap,        \* for each frame of wire: was it sent in a reconnect gap
    gapTo,          \* the positions of sentTo that hold a frame sent in a gap
    \* bot process: the Consumer Connector
    conns,          \* the connector's WebSocket instances that have not closed:
                    \*   [state, peer (the relay-side identity, as a set), delivered
                    \*    (messages of sentTo[peer] already dispatched)]
    timers,         \* pending reconnect timers: the delay of each
    emitted,        \* the "audio" events emitted on the emitter
    failures,       \* history: connect sequences started since the last open
    \* bot process: the join-voice-channel command and its Stream Adapter
    joins,          \* one record per successful run of the handler, in order:
                    \*   [conn (its voice connection, an index of voiceConns),
                    \*    audioStream (the "data" chunks emitted on it, in order),
                    \*    audioQueue, read (what the last read(size) returned)]
    voiceConns,     \* the VoiceConnection objects joinVoiceChannel has made:
                    \*   [guild, status]
    audioPlayer,    \* [status, resource (the join whose resource it holds, as a set)]
    played,         \* history: the joins whose resource play() has accepted
    reply           \* the last interaction.reply

relayVars == <<botClients, webClients, readyState, clientType, handlers, sentTo,
               sendErrors, stopping, listening, exited, exitCode, flushCalls,
               serverCloseCalls>>
netVars == <<wire, sent, handled, regAt, errored, wireGap, gapTo>>
connVars == <<conns, timers, emitted, failures>>
botVars == <<joins, voiceConns, audioPlayer, played, reply>>
vars == <<relayVars, netVars, connVars, botVars>>

\* ------------------------------------------------------------ helpers
RECURSIVE SumLen(_, _)
SumLen(f, n) == IF n = 0 THEN 0 ELSE Len(f[n]) + SumLen(f, n - 1)

Min(a, b) == IF a < b THEN a ELSE b

\* URLSearchParams.get(name): the value of the first pair named `name`, else null.
RECURSIVE SearchParamsGet(_, _)
SearchParamsGet(q, name) ==
    IF q = <<>> THEN Null
    ELSE IF Head(q)[1] = name THEN Head(q)[2]
    ELSE SearchParamsGet(Tail(q), name)

\* The connector is between the close of a connection and the next open: it has
\* no open instance, and a reconnect timer is pending or has fired since the last
\* open.
InGap ==
    /\ \A i \in 1..Len(conns) : conns[i].state # WS_OPEN
    /\ timers # <<>> \/ failures > 0

\* The process is alive: process.exit has not been called.
Running == ~exited

\* The identity the next accepted socket gets.
FreeIds == {c \in Conns : readyState[c] = "NONE"}
NextId == CHOOSE c \in FreeIds : \A d \in FreeIds : c <= d

\* new WebSocket(WS_URL): an instance in the connecting state.
NewWebSocket == [state |-> "CONNECTING", peer |-> NoPeer, delivered |-> 0]

\* ---------------------------------------------------------------- relay
\* Faulty variant: the comparison ignores case.
IsBotAnyCase(t) == t \in {"bot", "Bot", "BOT"}

\* clientType === "bot"
IsBot(t) == t = "bot"

\* botClient.send(data) of the ws library: the payload goes out on an open socket;
\* a send on a socket that is not open sends nothing and is an error.
WsSend(c, data, out) ==
    IF readyState[c] = WS_OPEN
    THEN [out EXCEPT !.sentTo[c] = Append(@, data)]
    ELSE [out EXCEPT !.sendErrors = @ + 1]

\* Faulty variant: the loop without the readyState test.
RECURSIVE BroadcastUnchecked(_, _, _)
BroadcastUnchecked(targets, data, out) ==
    IF targets = {} THEN out
    ELSE LET botClient == CHOOSE c \in targets : \A d \in targets : c <= d
         IN  BroadcastUnchecked(targets \ {botClient}, data,
                                WsSend(botClient, data, out))

\* Faulty variant: the loop leaves after the first consumer it has sent to.
RECURSIVE BroadcastFirstOnly(_, _, _)
BroadcastFirstOnly(targets, data, out) ==
    IF targets = {} THEN out
    ELSE LET botClient == CHOOSE c \in targets : \A d \in targets : c <= d
         IN  IF readyState[botClient] = WS_OPEN
             THEN WsSend(botClient, data, out)
             ELSE BroadcastFirstOnly(targets \ {botClient}, data, out)

\* for (const botClient of botClients) if (botClient.readyState === OPEN) send(data)
\* A Set iterates in insertion order, which is the order of the identities.
RECURSIVE Broadcast(_, _, _)
Broadcast(targets, data, out) ==
    IF targets = {} THEN out
    ELSE LET botClient == CHOOSE c \in targets : \A d \in targets : c <= d
         IN  Broadcast(targets \ {botClient}, data,
                       IF readyState[botClient] = WS_OPEN
                       THEN WsSend(botClient, data, out)
                       ELSE out)

\* Faulty variant: the relay keeps the last frame and sends it to a consumer that
\* registers.
OnConnectionReplay(c, q) ==
    LET t == SearchParamsGet(q, "type")
    IN  /\ Running
        /\ listening
        /\ c \in FreeIds
        /\ c = NextId
        /\ clientType' = [clientType EXCEPT ![c] = t]
        /\ readyState' = [readyState EXCEPT ![c] = WS_OPEN]
        /\ IF IsBot(t)
           THEN /\ botClients' = botClients \cup {c}
                /\ handlers' = [handlers EXCEPT ![c] = "bot"]
                /\ sentTo' = [sentTo EXCEPT ![c] =
                                 IF handled = <<>> THEN @
                                 ELSE Append(@, handled[Len(handled)].data)]
                /\ UNCHANGED webClients
           ELSE /\ webClients' = webClients \cup {c}
                /\ handlers' = [handlers EXCEPT ![c] = "web"]
                /\ UNCHANGED <<botClients, sentTo>>
        /\ regAt' = [regAt EXCEPT ![c] = Len(handled)]
        /\ UNCHANGED <<sendErrors, stopping, listening, exited, exitCode,
                       flushCalls, serverCloseCalls, wire, sent, handled, errored,
                       wireGap, gapTo>>

\* wss.on("connection"): classify the request by its type parameter, register the
\* socket and its handlers.
OnConnection(c, q) ==
    LET t == SearchParamsGet(q, "type")
    IN  /\ Running
        /\ listening
        /\ c \in FreeIds
        /\ c = NextId
        /\ clientType' = [clientType EXCEPT ![c] = t]
        /\ readyState' = [readyState EXCEPT ![c] = WS_OPEN]
        /\ IF IsBot(t)
           THEN /\ botClients' = botClients \cup {c}
                /\ handlers' = [handlers EXCEPT ![c] = "bot"]
                /\ UNCHANGED webClients
           ELSE /\ webClients' = webClients \cup {c}
                /\ handlers' = [handlers EXCEPT ![c] = "web"]
                /\ UNCHANGED botClients
        /\ regAt' = [regAt EXCEPT ![c] = Len(handled)]
        /\ UNCHANGED <<sentTo, sendErrors, stopping, listening, exited, exitCode,
                       flushCalls, serverCloseCalls, wire, sent, handled, errored,
                       wireGap, gapTo>>

\* A client other than the connector connects (the browser sends no type at all).
ClientConnect(q) ==
    /\ FreeIds # {}
    /\ OnConnection(NextId, q)
    /\ UNCHANGED <<connVars, botVars>>

\* A connected client sends one frame (the connector never sends).
ClientSend(c, data) ==
    /\ Running
    /\ readyState[c] = WS_OPEN
    /\ \A i \in 1..Len(conns) : c \notin conns[i].peer
    /\ SumLen(sent, MaxConns) < MaxFrames
    /\ wire' = [wire EXCEPT ![c] = Append(@, data)]
    /\ sent' = [sent EXCEPT ![c] = Append(@, data)]
    /\ wireGap' = [wireGap EXCEPT ![c] = Append(@, InGap)]
    /\ UNCHANGED <<relayVars, handled, regAt, errored, gapTo, connVars, botVars>>

\* Faulty variant: the message listener is registered before the branch, for
\* every socket.
OnMessageAnyBranch(c) ==
    /\ Running
    /\ readyState[c] = WS_OPEN
    /\ wire[c] # <<>>
    /\ LET data == Head(wire[c])
           out == Broadcast(botClients, data,
                            [sentTo |-> sentTo, sendErrors |-> sendErrors])
       IN  /\ wire' = [wire EXCEPT ![c] = Tail(@)]
           /\ wireGap' = [wireGap EXCEPT ![c] = Tail(@)]
           /\ sentTo' = out.sentTo
           /\ sendErrors' = out.sendErrors
           /\ handled' = Append(handled, [from |-> c, data |-> data])
           /\ gapTo' = [b \in Conns |->
                          IF Head(wireGap[c]) /\ out.sentTo[b] # sentTo[b]
                          THEN gapTo[b] \cup {Len(out.sentTo[b])}
                          ELSE gapTo[b]]
    /\ UNCHANGED <<botClients, webClients, readyState, clientType, handlers, stopping,
                   listening, exited, exitCode, flushCalls, serverCloseCalls, sent,
                   regAt, errored, connVars, botVars>>

\* A "message" event of socket c. Only the producer branch registers a listener
\* (ws.on("message")); on a consumer socket the event has no listener.
OnMessage(c) ==
    /\ Running
    /\ readyState[c] = WS_OPEN
    /\ wire[c] # <<>>
    /\ LET data == Head(wire[c])
           out == Broadcast(botClients, data,
                            [sentTo |-> sentTo, sendErrors |-> sendErrors])
       IN  /\ wire' = [wire EXCEPT ![c] = Tail(@)]
           /\ wireGap' = [wireGap EXCEPT ![c] = Tail(@)]
           /\ IF handlers[c] = "web"
              THEN /\ sentTo' = out.sentTo
                   /\ sendErrors' = out.sendErrors
                   /\ handled' = Append(handled, [from |-> c, data |-> data])
                   /\ gapTo' = [b \in Conns |->
                                  IF Head(wireGap[c]) /\ out.sentTo[b] # sentTo[b]
                                  THEN gapTo[b] \cup {Len(out.sentTo[b])}
                                  ELSE gapTo[b]]
              ELSE UNCHANGED <<sentTo, sendErrors, handled, gapTo>>
    /\ UNCHANGED <<botClients, webClients, readyState, clientType, handlers, stopping,
                   listening, exited, exitCode, flushCalls, serverCloseCalls, sent,
                   regAt, errored, connVars, botVars>>

\* The peer's close frame arrives, or the relay's end starts to tear the socket
\* down: the socket is closing, no handler of the relay runs yet.
SocketClosing(c) ==
    /\ Running
    /\ readyState[c] = WS_OPEN
    /\ readyState' = [readyState EXCEPT ![c] = "CLOSING"]
    /\ UNCHANGED <<botClients, webClients, clientType, handlers, sentTo, sendErrors,
                   stopping, listening, exited, exitCode, flushCalls,
                   serverCloseCalls, netVars, connVars, botVars>>

\* Faulty variant: the error listener drops the socket from its set, as the close
\* listener does.
OnErrorDeletes(c) ==
    /\ Running
    /\ readyState[c] \in {WS_OPEN, "CLOSING"}
    /\ \E s \in {readyState[c], "CLOSING"} :
          readyState' = [readyState EXCEPT ![c] = s]
    /\ errored' = errored \cup {c}
    /\ botClients' = botClients \ {c}
    /\ webClients' = webClients \ {c}
    /\ UNCHANGED <<clientType, handlers, sentTo, sendErrors,
                   stopping, listening, exited, exitCode, flushCalls,
                   serverCloseCalls, wire, sent, handled, regAt, wireGap, gapTo,
                   connVars, botVars>>

\* ws.on("error"): log, nothing else. The library may already have moved the
\* socket to closing when it emits the event.
OnError(c) ==
    /\ Running
    /\ readyState[c] \in {WS_OPEN, "CLOSING"}
    /\ \E s \in {readyState[c], "CLOSING"} :
          readyState' = [readyState EXCEPT ![c] = s]
    /\ errored' = errored \cup {c}
    /\ UNCHANGED <<botClients, webClients, clientType, handlers, sentTo, sendErrors,
                   stopping, listening, exited, exitCode, flushCalls,
                   serverCloseCalls, wire, sent, handled, regAt, wireGap, gapTo,
                   connVars, botVars>>

\* Faulty variant: the listener logs and forgets the delete.
BotOnCloseNoDelete(c, clients) == clients

\* The consumer branch's ws.on("close"): botClients.delete(ws)
BotOnClose(c, clients) == clients \ {c}

\* Faulty variant: the listener deletes the socket from botClients instead.
WebOnCloseNoDelete(c, clients) == clients

\* The producer branch's ws.on("close"): webClients.delete(ws)
WebOnClose(c, clients) == clients \ {c}

\* The socket's "close" event (after a closing handshake, or directly on an abrupt
\* end): the socket is closed and the listener of its branch removes it from its set.
OnClose(c) ==
    /\ Running
    /\ readyState[c] \in {WS_OPEN, "CLOSING"}
    /\ readyState' = [readyState EXCEPT ![c] = "CLOSED"]
    /\ IF handlers[c] = "bot"
       THEN /\ botClients' = BotOnClose(c, botClients)
            /\ UNCHANGED webClients
       ELSE /\ webClients' = WebOnClose(c, webClients)
            /\ UNCHANGED botClients
    \* nothing reads the closed socket's request or its unread frames again
    /\ clientType' = [clientType EXCEPT ![c] = Null]
    /\ wire' = [wire EXCEPT ![c] = <<>>]
    /\ regAt' = [regAt EXCEPT ![c] = 0]
    /\ errored' = errored \ {c}
    /\ wireGap' = [wireGap EXCEPT ![c] = <<>>]
    /\ UNCHANGED <<handlers, sentTo, sendErrors, stopping, listening, exited,
                   exitCode, flushCalls, serverCloseCalls, sent, handled, gapTo,
                   connVars, botVars>>

\* Faulty variant: the handler without the stopping flag, its exit left to the callback of
\* server.close(), so the process lives on after the handler.
OnSignalUnguarded(signal) ==
    /\ Running
    /\ stopping' = stopping
    /\ flushCalls' = flushCalls + 1
    /\ listening' = FALSE
    /\ serverCloseCalls' = serverCloseCalls + 1
    /\ UNCHANGED <<exited, exitCode>>
    /\ UNCHANGED <<botClients, webClients, readyState, clientType, handlers, sentTo,
                   sendErrors, netVars, connVars, botVars>>

\* process.on(signal): the one-shot shutdown. The handler has no await, so it runs
\* to process.exit(0) in one turn of the loop.
OnSignal(signal) ==
    /\ Running
    /\ IF stopping
       THEN UNCHANGED <<stopping, flushCalls, listening, serverCloseCalls, exited,
                        exitCode>>
       ELSE /\ stopping' = TRUE
            /\ flushCalls' = flushCalls + 1
            /\ listening' = FALSE
            /\ serverCloseCalls' = serverCloseCalls + 1
            /\ exited' = TRUE
            /\ exitCode' = 0
    /\ UNCHANGED <<botClients, webClients, readyState, clientType, handlers, sentTo,
                   sendErrors, netVars, connVars, botVars>>

\* server.on("close"): close every tracked socket and clear both sets. The server
\* emits "close" on a later turn than the server.close() call, and only once every
\* connection of the server has ended.
ServerOnClose ==
    /\ Running
    /\ serverCloseCalls > 0
    /\ \A c \in Conns : readyState[c] \in {"NONE", "CLOSED"}
    /\ readyState' = [c \in Conns |->
                        IF c \in webClients \cup botClients /\ readyState[c] = WS_OPEN
                        THEN "CLOSING" ELSE readyState[c]]
    /\ webClients' = {}
    /\ botClients' = {}
    /\ UNCHANGED <<clientType, handlers, sentTo, sendErrors, stopping, listening,
                   exited, exitCode, flushCalls, serverCloseCalls, netVars, connVars, botVars>>

\* ------------------------------------------------------ Consumer Connector
Insts == 1..Len(conns)
PeerOf(i) == CHOOSE c \in conns[i].peer : TRUE
RemoveAt(q, i) == SubSeq(q, 1, i - 1) \o SubSeq(q, i + 1, Len(q))
HasOpen == \E i \in Insts : conns[i].state = WS_OPEN

\* Faulty variant: the delay doubles with every failed attempt.
DelayBackoff(n) == ReconnectDelay * (2 ^ n)

\* The delay of the reconnect timer: the literal 5000, whatever has failed before.
DelayFor(n) == ReconnectDelay

\* connectToWebSocket(): one new WebSocket instance with its four listeners.
ConnectToWebSocket(cs) == Append(cs, NewWebSocket)

\* The relay accepts the connector's request (WS_URL carries type=bot).
ConnAccepted(i) ==
    /\ i \in Insts
    /\ conns[i].state = "CONNECTING"
    /\ conns[i].peer = NoPeer
    /\ FreeIds # {}
    /\ OnConnection(NextId, BotQuery)
    /\ conns' = [conns EXCEPT ![i].peer = {NextId}]
    /\ UNCHANGED <<timers, emitted, failures, botVars>>

\* ws.on("open"): log.
ConnOnOpen(i) ==
    /\ i \in Insts
    /\ conns[i].state = "CONNECTING"
    /\ conns[i].peer # NoPeer
    /\ conns' = [conns EXCEPT ![i].state = WS_OPEN]
    /\ failures' = 0
    /\ UNCHANGED <<relayVars, netVars, botVars, timers, emitted>>

\* Buffer.from(data): a new buffer with a copy of the bytes of the message.
BufferFrom(data) == [k \in 1..Len(data) |-> data[k] % 256]

\* Faulty variant: the push on audioQueue is back in, next to the emit.
AudioListenerBoth(session, audioData) ==
    [session EXCEPT !.audioQueue = Append(@, audioData.audioBuffer),
                    !.audioStream = Append(@, audioData.audioBuffer)]

\* Faulty variant: the listener pushes the chunk on audioQueue and leaves it to read().
AudioListenerQueued(session, audioData) ==
    [session EXCEPT !.audioQueue = Append(@, audioData.audioBuffer)]

\* The listener a join attaches with emitter.on("audio"):
\* audioStream.emit("data", audioData.audioBuffer); the push on audioQueue is
\* commented out.
AudioListener(session, audioData) ==
    [session EXCEPT !.audioStream = Append(@, audioData.audioBuffer)]

\* Faulty variant: a join detaches the listener of the join before it.
EmitAudioLastOnly(js, audioData) ==
    [s \in 1..Len(js) |->
        IF s = Len(js) THEN AudioListener(js[s], audioData) ELSE js[s]]

\* emitter.emit("audio", audioData): every attached listener runs, synchronously
\* and in the order of attachment; with no listener nothing happens.
EmitAudio(js, audioData) ==
    [s \in 1..Len(js) |-> AudioListener(js[s], audioData)]

\* ws.on("message"): wrap the payload and emit it as an "audio" event.
ConnOnMessage(i) ==
    /\ i \in Insts
    /\ conns[i].state = WS_OPEN
    /\ conns[i].delivered < Len(sentTo[PeerOf(i)])
    /\ LET data == sentTo[PeerOf(i)][conns[i].delivered + 1]
           audioData == [userId |-> "websocket-audio",
                         audioBuffer |-> BufferFrom(data)]
       IN  /\ emitted' = Append(emitted, audioData)
           /\ joins' = EmitAudio(joins, audioData)
    /\ conns' = [conns EXCEPT ![i].delivered = @ + 1]
    /\ UNCHANGED <<relayVars, netVars, timers, failures, voiceConns, audioPlayer,
                   played, reply>>

\* Faulty variant: the error listener schedules a reconnect too, as the close
\* listener does.
ConnOnErrorReconnects(i) ==
    /\ i \in Insts
    /\ conns[i].state \in {"CONNECTING", WS_OPEN}
    /\ \E s \in {conns[i].state, "CLOSING"} :
          conns' = [conns EXCEPT ![i].state = s]
    /\ timers' = Append(timers, ReconnectDelay)
    /\ UNCHANGED <<relayVars, netVars, botVars, emitted, failures>>

\* ws.on("error"): log, nothing else. The library may already have moved the
\* instance to closing when it emits the event.
ConnOnError(i) ==
    /\ i \in Insts
    /\ conns[i].state \in {"CONNECTING", WS_OPEN}
    /\ \E s \in {conns[i].state, "CLOSING"} :
          conns' = [conns EXCEPT ![i].state = s]
    /\ UNCHANGED <<relayVars, netVars, botVars, timers, emitted, failures>>

\* Faulty variant: no reconnect after MaxFailures failed attempts.
ConnOnCloseGiveUp(i) ==
    /\ i \in Insts
    /\ conns' = RemoveAt(conns, i)
    /\ timers' = IF failures >= MaxFailures THEN timers
                  ELSE Append(timers, DelayFor(failures))
    /\ UNCHANGED <<relayVars, netVars, botVars, emitted, failures>>

\* ws.on("close"): the instance is closed for good; schedule the reconnect timer.
ConnOnClose(i) ==
    /\ i \in Insts
    /\ conns' = RemoveAt(conns, i)
    /\ timers' = Append(timers, DelayFor(failures))
    /\ UNCHANGED <<relayVars, netVars, botVars, emitted, failures>>

\* The reconnect timer fires: log and connectToWebSocket().
TimerFire ==
    /\ timers # <<>>
    /\ timers' = Tail(timers)
    /\ conns' = ConnectToWebSocket(conns)
    /\ failures' = Min(failures + 1, MaxFailures)
    /\ UNCHANGED <<relayVars, netVars, botVars, emitted>>

\* ------------------------------------------- join-voice-channel, Stream Adapter
Guilds == {"g1"}
ChannelTypes == {"GuildVoice", "GuildText"}
VoiceStatuses == {"signalling", "connecting", "ready", "disconnected", "destroyed"}
PlayerStatuses == {"idle", "buffering", "playing"}
NoResource == {}
Sessions == 1..Len(joins)
VoiceIds == 1..Len(voiceConns)

\* getVoiceConnection(guildId): the connection of the guild that is not destroyed.
Existing(g) ==
    {c \in VoiceIds : voiceConns[c].guild = g /\ voiceConns[c].status # "destroyed"}

\* Faulty variant: the pull side serves the queue (the commented-out body of read).
ReadFromQueue(session) ==
    IF session.audioQueue # <<>>
    THEN [session EXCEPT !.read = Head(session.audioQueue),
                         !.audioQueue = Tail(session.audioQueue)]
    ELSE [session EXCEPT !.read = Null]

\* read(size) of audioStream: return null; nothing is pushed.
StreamRead(session) == [session EXCEPT !.read = Null]

\* audioPlayer.play(resource) of join s: a resource this player already holds or
\* has held is left alone; otherwise the player takes it and buffers.
PlayerPlay(s, pp) ==
    IF s \in pp.played THEN pp
    ELSE [player |-> [status |-> "buffering", resource |-> {s}],
          played |-> pp.played \cup {s}]

\* Faulty variant: the playback listener subscribed to every state change.
AnyChangeFires(old, new) == new # old

\* connection.on(VoiceConnectionStatus.Ready, ...): the listener runs when the
\* connection enters Ready.
ReadyListenerFires(old, new) == new = "ready" /\ old # "ready"

\* The Ready listeners of connection c, one per join on it, in order of
\* attachment: each calls audioPlayer.play(resource) of its join.
RECURSIVE OnReady(_, _, _)
OnReady(c, s, pp) ==
    IF s > Len(joins) THEN pp
    ELSE OnReady(c, s + 1, IF joins[s].conn = c THEN PlayerPlay(s, pp) ELSE pp)

\* The voice library moves connection c to another status and emits
\* "stateChange" (whose listener logs) and the event of the new status.
VoiceStateChange(c, new) ==
    /\ c \in VoiceIds
    /\ voiceConns[c].status \notin {"destroyed", new}
    /\ LET old == voiceConns[c].status
           pp0 == [player |-> audioPlayer, played |-> played]
           pp == IF ReadyListenerFires(old, new) THEN OnReady(c, 1, pp0) ELSE pp0
       IN  /\ voiceConns' = [voiceConns EXCEPT ![c].status = new]
           /\ audioPlayer' = pp.player
           /\ played' = pp.played
    /\ UNCHANGED <<relayVars, netVars, connVars, joins, reply>>

\* The player leaves buffering or playing on its own (the resource becomes
\* readable, the stream fails, too many frames are missed); the listeners log.
PlayerStateChange(new) ==
    /\ audioPlayer.status # "idle"
    /\ new \in (IF audioPlayer.status = "buffering" THEN {"playing", "idle"}
                ELSE {"idle"})
    /\ audioPlayer' = [audioPlayer EXCEPT !.status = new]
    /\ UNCHANGED <<relayVars, netVars, connVars, joins, voiceConns, played, reply>>

\* The stream machinery calls read(size) of the audioStream of join s.
AudioStreamRead(s) ==
    /\ s \in Sessions
    /\ joins' = [joins EXCEPT ![s] = StreamRead(joins[s])]
    /\ UNCHANGED <<relayVars, netVars, connVars, voiceConns, audioPlayer, played,
                   reply>>

\* A new audioStream with its audioQueue, and the "audio" listener attached.
NewSession(c) ==
    [conn |-> c, audioStream |-> <<>>, audioQueue |-> <<>>, read |-> "unread",
     attachedAt |-> Len(emitted)]

\* The join-voice-channel handler. A channel that is not a voice channel is
\* refused. Otherwise joinVoiceChannel returns the guild's connection (a new one
\* in signalling, or the existing one, which it asks to rejoin), and the handler
\* attaches its listeners, its stream and its resource to it.
JoinVoiceChannelHandler(type, g) ==
    IF type # "GuildVoice"
    THEN /\ reply' = "ERROR: can only set this to a voice channel!"
         /\ UNCHANGED <<relayVars, netVars, connVars, joins, voiceConns,
                        audioPlayer, played>>
    ELSE /\ Len(joins) < MaxJoins
         /\ IF Existing(g) = {}
            THEN /\ voiceConns' = Append(voiceConns,
                                         [guild |-> g, status |-> "signalling"])
                 /\ joins' = Append(joins, NewSession(Len(voiceConns) + 1))
            ELSE LET c == CHOOSE e \in Existing(g) : TRUE
                     old == voiceConns[c].status
                 IN  \E new \in (IF old = "disconnected"
                                 THEN {"signalling", "disconnected"}
                                 ELSE {old, "disconnected"}) :
                        /\ voiceConns' = [voiceConns EXCEPT ![c].status = new]
                        /\ joins' = Append(joins, NewSession(c))
         /\ reply' = "Joined voice channel! Now listening for audio."
         /\ UNCHANGED <<relayVars, netVars, connVars, audioPlayer, played>>

Init ==
    /\ botClients = {}
    /\ webClients = {}
    /\ readyState = [c \in Conns |-> "NONE"]
    /\ clientType = [c \in Conns |-> Null]
    /\ handlers = [c \in Conns |-> "none"]
    /\ sentTo = [c \in Conns |-> <<>>]
    /\ sendErrors = 0
    /\ stopping = FALSE
    /\ listening = TRUE
    /\ exited = FALSE
    /\ exitCode = -1
    /\ flushCalls = 0
    /\ serverCloseCalls = 0
    /\ wire = [c \in Conns |-> <<>>]
    /\ sent = [c \in Conns |-> <<>>]
    /\ handled = <<>>
    /\ regAt = [c \in Conns |-> 0]
    /\ errored = {}
    /\ wireGap = [c \in Conns |-> <<>>]
    /\ gapTo = [c \in Conns |-> {}]
    /\ conns = << NewWebSocket >>
    /\ timers = <<>>
    /\ emitted = <<>>
    /\ failures = 0
    /\ joins = <<>>
    /\ voiceConns = <<>>
    /\ audioPlayer = [status |-> "idle", resource |-> NoResource]
    /\ played = {}
    /\ reply = "none"

\* The relay and the clients it serves. Seen from the relay the connector is one
\* more client that asks for type=bot and never sends.
NextRelay ==
    \/ \E q \in Queries : ClientConnect(q)
    \/ \E c \in Conns, data \in Payloads : ClientSend(c, data)
    \/ \E c \in Conns : OnMessage(c)
    \/ \E c \in Conns : SocketClosing(c)
    \/ \E c \in Conns : OnError(c)
    \/ \E c \in Conns : OnClose(c)
    \/ \E signal \in Signals : OnSignal(signal)

\* The connector's connection lifecycle.
NextConnector ==
    \/ \E i \in Insts : ConnAccepted(i)
    \/ \E i \in Insts : ConnOnOpen(i)
    \/ \E i \in Insts : ConnOnError(i)
    \/ \E i \in Insts : ConnOnClose(i)
    \/ TimerFire

\* The relay's end of the sockets it has accepted, and its shutdown.
NextRelaySockets ==
    \/ \E c \in Conns : SocketClosing(c)
    \/ \E c \in Conns : OnError(c)
    \/ \E c \in Conns : OnClose(c)
    \/ \E signal \in Signals : OnSignal(signal)

\* The join command and the events of the voice library.
NextAdapter ==
    \/ \E type \in ChannelTypes, g \in Guilds : JoinVoiceChannelHandler(type, g)
    \/ \E c \in VoiceIds, new \in VoiceStatuses : VoiceStateChange(c, new)
    \/ \E new \in PlayerStatuses : PlayerStateChange(new)
    \/ \E s \in Sessions : AudioStreamRead(s)

\* The producer's frames on their way through the relay to the connector's
\* open connection.
NextFeed ==
    \/ \E i \in Insts : ConnAccepted(i)
    \/ \E i \in Insts : ConnOnOpen(i)
    \/ \E i \in Insts : ConnOnMessage(i)
    \/ ClientConnect(<<>>)
    \/ \E c \in Conns, data \in Payloads : ClientSend(c, data)
    \/ \E c \in Conns : OnMessage(c)

Next ==
    NextRelay \/ NextConnector \/ (\E i \in Insts : ConnOnMessage(i)) \/ NextAdapter

Spec == Init /\ [][Next]_vars
SpecRelay == Init /\ [][NextRelay]_vars

\* The bot process with the relay it connects to and the browser's producer
\* (App.tsx opens ws://localhost:8080 with no query). The relay's sockets close
\* and the relay shuts down; its error events, which change nothing of the relay
\* that a closing socket does not, are left to SpecRelay and SpecConnector.
NextBot ==
    \/ NextConnector
    \/ \E i \in Insts : ConnOnMessage(i)
    \/ ClientConnect(<<>>)
    \/ \E c \in Conns, data \in Payloads : ClientSend(c, data)
    \/ \E c \in Conns : OnMessage(c)
    \/ \E c \in Conns : SocketClosing(c)
    \/ \E c \in Conns : OnClose(c)
    \/ \E signal \in Signals : OnSignal(signal)

SpecBot == Init /\ [][NextBot]_vars

\* The bot's adapter: join commands and voice events, with frames arriving on
\* the connector's connection.
SpecAdapter == Init /\ [][NextAdapter \/ NextFeed]_vars

\* The join command and the voice library alone, no frame arriving.
SpecJoin == Init /\ [][NextAdapter]_vars

\* The connector against a relay that no producer feeds: the connection lifecycle
\* alone. The timer of the bot's event loop fires (WF); a relay that is reachable
\* completes a handshake that is attempted again and again (SF); the library
\* emits "close" for an instance it has moved to closing (WF).
SpecConnector == Init /\ [][NextConnector \/ NextRelaySockets]_vars
FairConnector ==
    /\ SpecConnector
    /\ WF_vars(TimerFire)
    /\ SF_vars(\E i \in Insts : ConnAccepted(i))
    /\ SF_vars(\E i \in Insts : ConnOnOpen(i))
    /\ WF_vars(\E i \in Insts : conns[i].state = "CLOSING" /\ ConnOnClose(i))

\* ------------------------------------------------------------- properties
Last(q) == q[Len(q)]
DataOf(q) == [k \in 1..Len(q) |-> q[k].data]
RECURSIVE FromOf(_, _)
FromOf(q, p) ==
    IF q = <<>> THEN <<>>
    ELSE (IF Head(q).from = p THEN <<Head(q).data>> ELSE <<>>) \o FromOf(Tail(q), p)
Tracked(c) == readyState[c] \in {WS_OPEN, "CLOSING"}
OpenConsumers == {c \in botClients : readyState[c] = WS_OPEN}
\* A step in which the broadcast handler handles one producer frame.
HandledStep == handled' # handled

\* C1: when the relay handles a producer's message, every socket that is in the
\* consumer set and open gets exactly the payload the producer sent, once, at the
\* end of what it has been sent; every other socket (not in the set, or in it but
\* closing or closed) gets nothing, and no send is made on a socket that is not open.
C1_FanOut ==
    [][HandledStep =>
        LET p == Last(handled').from
            payload == Head(wire[p])
        IN  /\ Last(handled').data = payload
            /\ \A c \in Conns :
                  sentTo'[c] = IF c \in botClients /\ readyState[c] = WS_OPEN
                               THEN Append(sentTo[c], payload)
                               ELSE sentTo[c]
            /\ sendErrors' = sendErrors]_vars

\* C1 witness: two consumers registered before any frame; one is open and has been
\* sent a frame, the other is still in the set, closing, and was skipped.
C1_Witness ==
    \E a, b \in botClients :
        /\ a # b
        /\ regAt[a] = 0 /\ regAt[b] = 0
        /\ readyState[a] = WS_OPEN /\ readyState[b] = "CLOSING"
        /\ sentTo[a] # <<>> /\ sentTo[b] = <<>>
        /\ sendErrors = 0

C3_ClosedConsumer ==
    [][/\ \A c \in Conns :
            readyState'[c] = "CLOSED" =>
                /\ c \notin botClients'
                /\ readyState[c] = "CLOSED" => sentTo'[c] = sentTo[c]
       /\ HandledStep =>
            \A c \in OpenConsumers : sentTo'[c] = Append(sentTo[c], Last(handled').data)
      ]_vars

\* C3 witness: two consumers were sent F1; one closed; F2 went to the other only.
C3_Witness ==
    \E a, b \in Conns :
        /\ handlers[a] = "bot" /\ readyState[a] = "CLOSED"
        /\ b \in OpenConsumers
        /\ sentTo[a] = << <<1, 2, 3>> >>
        /\ sentTo[b] = << <<1, 2, 3>>, <<4, 5>> >>

\* C4: a frame handled while no consumer is open changes nothing but the
\* producer's queue of unread frames: nothing is sent, no send fails, the sets and
\* the sockets stay as they are; and no consumer is ever sent more than the frames
\* handled since it registered, so a dropped frame is not delivered later.
C4_NoConsumersNoOp ==
    /\ [][(HandledStep /\ OpenConsumers = {}) =>
            /\ sentTo' = sentTo
            /\ sendErrors' = sendErrors
            /\ botClients' = botClients /\ webClients' = webClients
            /\ readyState' = readyState
            /\ wire' = [wire EXCEPT ![Last(handled').from] = Tail(@)]]_vars
    /\ [](\A c \in Conns : Len(sentTo[c]) <= Len(handled) - regAt[c])

\* C4 witness: a frame was handled with no consumer, and a consumer that registered
\* afterwards is open and has been sent nothing.
C4_Witness ==
    /\ Len(handled) = 1
    /\ \E c \in OpenConsumers : regAt[c] = 1 /\ sentTo[c] = <<>>
    /\ \A c \in Conns : handlers[c] = "bot" => regAt[c] = 1
    /\ sendErrors = 0

\* C5: a tracked socket is in the consumer set exactly when the type parameter of
\* its request is the string "bot", and in the producer set exactly when it is
\* anything else or absent; it is never in both.
C5_RoleClassification ==
    \A c \in Conns :
        Tracked(c) =>
            /\ c \in botClients <=> clientType[c] = "bot"
            /\ c \in webClients <=> clientType[c] # "bot"

\* C5 witness: requests with type=bot, type=Bot and no type are all registered.
C5_Witness ==
    \E a, b, c \in Conns :
        /\ Tracked(a) /\ Tracked(b) /\ Tracked(c)
        /\ clientType[a] = "bot" /\ a \in botClients
        /\ clientType[b] = "Bot" /\ b \in webClients
        /\ clientType[c] = Null /\ c \in webClients

\* C6: the two sets are disjoint, an open socket is in exactly one of them, and a
\* socket that is closed (or was never accepted) is in neither.
C6_RegistryInvariant ==
    /\ botClients \cap webClients = {}
    /\ \A c \in Conns :
          /\ readyState[c] = WS_OPEN => c \in botClients \cup webClients
          /\ readyState[c] \in {"CLOSED", "NONE"} => c \notin botClients \cup webClients

\* C6 witness: a closed consumer, a closed producer and an open socket, after
\* frames were handled.
C6_Witness ==
    \E a, b, c \in Conns :
        /\ readyState[a] = "CLOSED" /\ handlers[a] = "bot"
        /\ readyState[b] = "CLOSED" /\ handlers[b] = "web"
        /\ readyState[c] = WS_OPEN
        /\ handled # <<>>

\* C7 (as claimed): once the process has exited, the server accepts nothing, both
\* sets are empty and no tracked socket was left open.
C7_GracefulShutdown ==
    exited =>
        /\ ~listening
        /\ botClients = {} /\ webClients = {}
        /\ \A c \in Conns : readyState[c] # WS_OPEN

\* The cleanup listener of the server's "close" event never runs: no state of the
\* living process has server.close() behind it.
ServerOnCloseNeverRuns == ~ENABLED ServerOnClose

\* C8: flush, server.close and exit run at most once, and no step of a process
\* that is stopping runs any of them again.
C8_OneShotShutdown ==
    /\ [](flushCalls <= 1 /\ serverCloseCalls <= 1)
    /\ [][stopping =>
            /\ flushCalls' = flushCalls
            /\ serverCloseCalls' = serverCloseCalls
            /\ exited' = exited /\ exitCode' = exitCode
            /\ listening' = listening]_vars
    /\ [][exited' /\ ~exited =>
            /\ ~stopping /\ stopping'
            /\ flushCalls' = 1 /\ serverCloseCalls' = 1 /\ exitCode' = 0]_vars

\* C8 witness: the shutdown has run, with sockets tracked.
C8_Witness ==
    /\ stopping /\ exited /\ exitCode = 0
    /\ flushCalls = 1 /\ serverCloseCalls = 1
    /\ botClients # {} /\ webClients # {}

\* A "close" event of a connector instance: the instance leaves conns.
ConnClosedStep == Len(conns') < Len(conns)

\* C9: a close event of a connector instance schedules exactly one timer, of
\* ReconnectDelay, whatever has failed before; nothing else schedules a timer (an
\* error event does not); the only other change of the timers is one of them
\* firing, which starts exactly one new connect sequence.
C9_OneReconnectPerClose ==
    [][/\ ConnClosedStep =>
            /\ Len(conns') = Len(conns) - 1
            /\ timers' = Append(timers, ReconnectDelay)
       /\ (timers' # timers /\ ~ConnClosedStep) =>
            /\ timers # <<>>
            /\ timers' = Tail(timers)
            /\ conns' = Append(conns, NewWebSocket)
      ]_vars

\* C9 witness: after MaxFailures failed attempts in a row, and after an instance
\* that had received a frame, one timer of 5000 is pending and no instance is left.
C9_Witness ==
    /\ failures = MaxFailures
    /\ conns = <<>>
    /\ timers = <<5000>>
    /\ emitted # <<>>

Reachable == Running /\ listening /\ FreeIds # {}

\* C10: the connector always has an instance that has not closed or a pending
\* timer; a timer leaves the pending timers only by firing, which starts a connect
\* sequence; whenever no instance is left a new one follows; and if the relay stays
\* reachable from some point on, the connector ends with an open connection.
C10_RetryForever ==
    /\ [](conns # <<>> \/ timers # <<>>)
    /\ [][Len(timers') < Len(timers) => conns' = Append(conns, NewWebSocket)]_vars
    /\ (conns = <<>>) ~> (conns # <<>>)
    /\ (<>[]Reachable) => <>[]HasOpen

\* C10 witness: MaxFailures attempts in a row have failed, and the attempt that
\* followed them has reached the relay, which accepted it.
C10_Witness ==
    /\ failures = MaxFailures
    /\ timers = <<>>
    /\ \E i \in Insts : conns[i].state = "CONNECTING" /\ conns[i].peer # NoPeer

\* The voice connection of join s.
ConnOf(s) == voiceConns[joins[s].conn]

\* C12: play() takes the resource of a join only in a step in which the voice
\* connection of that join, made by an earlier step, enters ready; and a step that
\* is no such play (any other transition of a connection or of the player, a join
\* command, a read) leaves the player's resource alone and starts nothing: a
\* player that is idle stays idle.
C12_PlaybackGating ==
    /\ [][\A s \in 1..Len(joins') :
            s \in played' \ played =>
                /\ s \in Sessions
                /\ ConnOf(s).status # "ready"
                /\ voiceConns'[joins[s].conn].status = "ready"]_vars
    /\ [][played' = played =>
            /\ audioPlayer'.resource = audioPlayer.resource
            /\ audioPlayer.status = "idle" => audioPlayer'.status = "idle"]_vars
    /\ [](played = {} => audioPlayer = [status |-> "idle", resource |-> NoResource])

\* C12 witness: the player plays the resource of one join; a second join was made
\* on the connection when it was ready already, and its resource has not been
\* played.
C12_Witness ==
    \E s, t \in Sessions :
        /\ s \in played /\ t \notin played
        /\ audioPlayer = [status |-> "playing", resource |-> {s}]
        /\ ConnOf(t).status = "ready"

\* C13 (as claimed): a chunk is emitted on the audioStream of a join only when
\* the voice connection of that join is ready or has reported ready to the join's
\* listener before (which is when play() takes its resource).
C13_NoFeedBeforeReady ==
    [][\A s \in Sessions :
          joins'[s].audioStream # joins[s].audioStream =>
              s \in played \/ ConnOf(s).status = "ready"]_vars

\* The payloads of the "audio" events so far, in order of emission.
Arrived == [k \in 1..Len(emitted) |-> emitted[k].audioBuffer]
\* A step in which instance i of the connector handles one more message.
MessageStep(i) ==
    /\ i \in 1..Len(conns')
    /\ conns'[i].delivered = conns[i].delivered + 1

\* C14: when the connector handles a message, the audioStream of every join gets
\* exactly one chunk more, at its end, with the bytes of that message; no other
\* step touches a stream (nothing is inserted when no frame arrives); so at any
\* time the chunks of a stream are the payloads that arrived since its listener
\* was attached, each once, in order of arrival.
C14_AdapterOrdering ==
    /\ [][\A i \in Insts :
            MessageStep(i) =>
                LET msg == sentTo[PeerOf(i)][conns[i].delivered + 1]
                IN  \A s \in Sessions :
                       joins'[s].audioStream = Append(joins[s].audioStream, msg)]_vars
    /\ [][(\A i \in Insts : ~MessageStep(i)) =>
            \A s \in Sessions : joins'[s].audioStream = joins[s].audioStream]_vars
    /\ [](\A s \in Sessions :
            joins[s].audioStream =
                SubSeq(Arrived, joins[s].attachedAt + 1, Len(Arrived)))

\* C14 witness: two different frames have arrived on the connector's open
\* connection while a join was attached, and its stream holds both, in order.
C14_Witness ==
    \E s \in Sessions, i \in Insts :
        /\ conns[i].state = WS_OPEN /\ conns[i].delivered = 2
        /\ joins[s].attachedAt = 0
        /\ joins[s].audioStream = << <<4, 5>>, <<1, 2, 3>> >>
        /\ sentTo[PeerOf(i)] = joins[s].audioStream

\* C17: the audioQueue of every join is empty and read() has returned nothing
\* but null; the step that emits an "audio" event is the step that puts its
\* payload at the end of every stream; the connector sends nothing back to the
\* relay; and a message that waits on an open connection can be handled
\* whatever the streams already hold.
C17_BufferBypassed ==
    /\ [](\A s \in Sessions :
            joins[s].audioQueue = <<>> /\ joins[s].read \in {"unread", Null})
    /\ [][emitted' # emitted =>
            \A s \in Sessions :
                /\ Len(joins'[s].audioStream) = Len(joins[s].audioStream) + 1
                /\ Last(joins'[s].audioStream) = Last(emitted').audioBuffer]_vars
    /\ [](\A i \in Insts :
            conns[i].peer # NoPeer =>
                /\ wire[PeerOf(i)] = <<>> /\ sent[PeerOf(i)] = <<>>
                /\ (conns[i].state = WS_OPEN
                        /\ conns[i].delivered < Len(sentTo[PeerOf(i)]))
                    => ENABLED ConnOnMessage(i))

\* C17 witness: MaxFrames frames have arrived, a stream holds them all, its
\* read() has been called, and its queue is empty.
C17_Witness ==
    \E s \in Sessions :
        /\ Len(joins[s].audioStream) = MaxFrames
        /\ Len(emitted) = MaxFrames
        /\ joins[s].read = Null
        /\ joins[s].audioQueue = <<>>

\* The joins whose stream gets the payload of the "audio" event of this step.
FedBy(chunk) ==
    {s \in Sessions : joins'[s].audioStream = Append(joins[s].audioStream, chunk)}

\* C19: a join that succeeds adds one listener, with an empty stream and an empty
\* queue whatever has arrived before, and leaves the earlier ones attached; no
\* step removes one; an "audio" event emitted after k joins puts its payload on
\* all k streams, and with k = 0 on none, leaving no trace of it for a later join.
C19_ListenersAccumulate ==
    /\ [][/\ Len(joins') \in {Len(joins), Len(joins) + 1}
          /\ \A s \in Sessions : joins'[s].attachedAt = joins[s].attachedAt
          /\ Len(joins') = Len(joins) + 1 =>
                /\ SubSeq(joins', 1, Len(joins)) = joins
                /\ Last(joins').audioStream = <<>>
                /\ Last(joins').audioQueue = <<>>
                /\ emitted' = emitted]_vars
    /\ [][emitted' # emitted =>
            LET k == Len(joins)
            IN  /\ Len(joins') = k
                /\ Cardinality(FedBy(Last(emitted').audioBuffer)) = k
                /\ k = 0 => joins' = <<>>]_vars

\* C19 witness: one frame arrived before any join; two joins followed, the first
\* on a connection that has been destroyed since; a second frame arrived and is
\* the only chunk of both streams.
C19_Witness ==
    /\ Len(joins) = 2 /\ Len(emitted) = 2
    /\ joins[1].attachedAt = 1 /\ joins[2].attachedAt = 1
    /\ ConnOf(1).status = "destroyed" /\ joins[2].conn # joins[1].conn
    /\ joins[1].audioStream = <<emitted[2].audioBuffer>>
    /\ joins[2].audioStream = <<emitted[2].audioBuffer>>
    /\ emitted[1] # emitted[2]

\* A socket leaves one of the two sets in this step.
LeavesSet(c) ==
    \/ c \in botClients /\ c \notin botClients'
    \/ c \in webClients /\ c \notin webClients'

\* C15: the step that handles an error event of a socket, producer or consumer,
\* changes neither set and sends nothing; a socket that has had an error stays in
\* its set as long as it is not closed; a socket leaves its set only in the step
\* that handles its close event; and a frame handled later still goes to every
\* consumer that has had an error and is open.
C15_ErrorKeepsRegistry ==
    /\ [][(\E c \in Conns : OnError(c)) =>
            /\ botClients' = botClients /\ webClients' = webClients
            /\ sentTo' = sentTo /\ exited' = exited]_vars
    /\ [](errored \subseteq botClients \cup webClients)
    /\ [][\A c \in Conns :
            LeavesSet(c) => readyState[c] # "CLOSED" /\ readyState'[c] = "CLOSED"]_vars
    /\ [][HandledStep =>
            \A c \in errored \cap OpenConsumers :
                sentTo'[c] = Append(sentTo[c], Last(handled').data)]_vars

\* C15 witness: a consumer and a producer have each had an error event; both are
\* still tracked, the consumer is open and has been sent every frame handled.
C15_Witness ==
    \E c \in errored \cap OpenConsumers, p \in errored \cap webClients :
        /\ regAt[c] = 0
        /\ Len(handled) = MaxFrames
        /\ sentTo[c] = DataOf(handled)

\* C16 (as claimed): no message the connector handles is a frame that its
\* producer sent while the connector was between a close and the next open.
C16_GapFramesNeverDelivered ==
    [][\A i \in Insts :
          MessageStep(i) => (conns[i].delivered + 1) \notin gapTo[PeerOf(i)]]_vars

\* C16 (amended): the relay sends on a consumer socket only in the step that
\* handles a frame while the socket is registered and open, and then that frame;
\* so what a tracked consumer socket has been sent is a run of the frames handled
\* that starts after its registration: nothing handled before, while the
\* connector had no registered open socket, is kept for it. A frame handled while
\* no socket of the connector is registered and open goes to none of them. And a
\* message the connector handles is the next one the relay sent on that
\* connection, which is open.
C16_LostAcrossReconnect ==
    /\ [][\A c \in Conns :
            (handlers'[c] = "bot" /\ sentTo'[c] # sentTo[c]) =>
                /\ HandledStep
                /\ c \in botClients /\ readyState[c] = WS_OPEN
                /\ sentTo'[c] = Append(sentTo[c], Last(handled').data)]_vars
    /\ [](\A c \in Conns :
            (handlers[c] = "bot" /\ Tracked(c)) =>
                /\ regAt[c] + Len(sentTo[c]) <= Len(handled)
                /\ sentTo[c] = DataOf(SubSeq(handled, regAt[c] + 1,
                                             regAt[c] + Len(sentTo[c]))))
    /\ [][(HandledStep /\ \A i \in Insts : conns[i].peer \cap OpenConsumers = {}) =>
            \A i \in Insts : \A c \in conns[i].peer : sentTo'[c] = sentTo[c]]_vars
    /\ [][\A i \in Insts :
            MessageStep(i) =>
                /\ conns[i].state = WS_OPEN
                /\ Last(emitted').audioBuffer =
                       sentTo[PeerOf(i)][conns[i].delivered + 1]]_vars

\* C16 witness: the connector's first socket closed having been sent nothing; one
\* frame was handled before the new socket registered and one after; the
\* connector, open again, has received the second frame only. Both frames were
\* sent in the gap.
C16_Witness ==
    \E i \in Insts, b \in Conns :
        /\ handlers[b] = "bot" /\ readyState[b] = "CLOSED" /\ sentTo[b] = <<>>
        /\ conns[i].state = WS_OPEN /\ conns[i].delivered = 1
        /\ Len(handled) = 2 /\ regAt[PeerOf(i)] = 1
        /\ handled[1].data # handled[2].data
        /\ Arrived = <<handled[2].data>>
        /\ gapTo[PeerOf(i)] = {1}

\* The instances of conns' that this step has made.
NewInsts == {i \in 1..Len(conns') : i > Len(conns)}
\* The instances that the relay accepts in this step.
NewlyAccepted ==
    {i \in Insts : i <= Len(conns') /\ conns[i].peer = NoPeer /\ conns'[i].peer # NoPeer}

\* C18: the connector has either one instance that has not closed and no timer,
\* or no instance and one timer; an instance appears only when a timer fires, and
\* it is a new WebSocket, connecting, with nothing received; the socket the relay
\* accepts for an instance is one it has never had before; an instance that has
\* closed is gone for good: a step takes away at most the one instance that
\* closes, and schedules the timer in its place.
C18_SingleLiveConnection ==
    /\ [](Len(conns) + Len(timers) = 1)
    /\ [][\A i \in NewInsts :
            /\ conns'[i] = NewWebSocket
            /\ timers # <<>> /\ timers' = Tail(timers)]_vars
    /\ [][\A i \in NewlyAccepted :
            \A c \in conns'[i].peer :
                readyState[c] = "NONE" /\ sentTo[c] = <<>>]_vars
    /\ [][ConnClosedStep => conns' = <<>> /\ Len(timers') = 1]_vars

\* C18 witness: the first instance has closed, its socket at the relay too; the
\* instance of the reconnect is open on another socket, and no timer is pending.
C18_Witness ==
    /\ timers = <<>>
    /\ Len(conns) = 1
    /\ conns[1].state = WS_OPEN
    /\ \E b \in Conns :
          /\ handlers[b] = "bot" /\ readyState[b] = "CLOSED"
          /\ b \notin conns[1].peer
          /\ readyState[PeerOf(1)] = WS_OPEN

\* C20: nothing is ever sent on a socket that was registered as a producer; a step
\* that sends on a socket sends on one that is in the consumer set and not in the
\* producer set; and the message event of a consumer's socket changes nothing of
\* the relay: no set, no socket state, nothing sent, no send error, no frame
\* handled.
C20_OneDirection ==
    /\ [](\A c \in Conns : handlers[c] = "web" => sentTo[c] = <<>>)
    /\ [][\A c \in Conns :
            sentTo'[c] # sentTo[c] => c \in botClients /\ c \notin webClients]_vars
    /\ [][(\E c \in Conns : handlers[c] = "bot" /\ OnMessage(c)) =>
            /\ relayVars' = relayVars
            /\ handled' = handled]_vars

\* C20 witness: an open consumer has sent a frame, which the relay has read; the
\* only frame handled is another one, a producer's, which the consumer was sent
\* and the producer was not.
C20_Witness ==
    \E c \in OpenConsumers, p \in webClients :
        /\ sent[c] # <<>> /\ wire[c] = <<>>
        /\ Len(handled) = 1 /\ handled[1].from = p
        /\ sent[c][1] # handled[1].data
        /\ sentTo[c] = <<handled[1].data>>
        /\ sentTo[p] = <<>>

TypeOK ==
    /\ botClients \subseteq Conns
    /\ webClients \subseteq Conns
    /\ readyState \in [Conns -> ReadyStates]
    /\ handlers \in [Conns -> {"none", "bot", "web"}]
    /\ \A c \in Conns : Len(sentTo[c]) <= MaxFrames
    /\ Len(handled) <= MaxFrames
    /\ Len(conns) <= 1
    /\ Len(timers) <= 1
    /\ failures \in 0..MaxFailures
    /\ errored \subseteq Conns
    /\ Len(joins) <= MaxJoins
    /\ \A c \in VoiceIds : voiceConns[c].status \in VoiceStatuses
    /\ audioPlayer.status \in PlayerStatuses
    /\ played \subseteq Sessions

=============================================================================
